---- MODULE Spec2Model ----
(***************************************************************************)
(* BaseVersion (semver.py): an immutable tuple of integer parts with       *)
(* construction, parsing, comparison, iteration, indexing and rendering.   *)
(*                                                                         *)
(* Python values are tagged records: [t |-> "int", v |-> n], and so on.    *)
(* Python strings are sequences of one-character strings.                  *)
(***************************************************************************)
EXTENDS Integers, Sequences, FiniteSets, TLC

VARIABLES
    version_parts,  \* self.__version_parts of the version under test
    b,              \* right-hand operand of a comparison
    key,            \* key handed to v[key]
    version,        \* text handed to from_string
    args,           \* positional arguments handed to BaseVersion(*args)
    versionslist,   \* list handed to sorted()
    out,            \* outcome of the last operation (value returned or exception raised)
    gen             \* the generator object returned by the last iter(v)

vars == <<version_parts, b, key, version, args, versionslist, out, gen>>

inputs == <<b, key, version, args, versionslist>>

(***************************************************************************)
(* Bounds of the model.                                                    *)
(***************************************************************************)
MaxLen == 3

(***************************************************************************)
(* Python values.                                                          *)
(***************************************************************************)
IntV(n) == [t |-> "int", v |-> n]

BoolV(n) == [t |-> "bool", v |-> n]

StrV(s) == [t |-> "str", s |-> s]

FloatV(s) == [t |-> "float", s |-> s]

NoneV == [t |-> "NoneType"]

VersionV(parts) == [t |-> "BaseVersion", parts |-> parts]

SliceV(start, stop, step) == [t |-> "slice", start |-> start, stop |-> stop, step |-> step]

NotImplemented == [kind |-> "NotImplemented"]

Return(val) == [kind |-> "return", val |-> val]

Raise(exc) == [kind |-> "raise", exc |-> exc]

NoOut == [op |-> "none", kind |-> "none"]

NoGen == [state |-> "none"]

Outcome(op, r) == [op |-> op] @@ r

\* isinstance(part, int): bool is a subclass of int
IsInstanceInt(part) == part.t \in {"int", "bool"}

\* isinstance(b, type(self)) with type(self) = BaseVersion
IsInstanceVersion(x) == x.t = "BaseVersion"

(***************************************************************************)
(* Input universes.                                                        *)
(***************************************************************************)
PartValues == {IntV(-12), IntV(0), IntV(3)}

TuplesOver(S, n) == UNION {[1..k -> S] : k \in 0..n}

Versions == TuplesOver(PartValues, MaxLen) \cup {<<BoolV(1)>>, <<IntV(3), BoolV(0)>>}

Foreign == {IntV(4), StrV(<<"4">>), FloatV(<<"4", ".", "0">>), NoneV}

Operands == {VersionV(p) : p \in Versions} \cup Foreign

(***************************************************************************)
(* Built-in tuple and int comparison.                                      *)
(***************************************************************************)
Min(x, y) == IF x < y THEN x ELSE y

Max(x, y) == IF x > y THEN x ELSE y

IntCompare(x, y, op) ==
    CASE op = "==" -> x = y
      [] op = "!=" -> x # y
      [] op = "<"  -> x < y
      [] op = ">"  -> x > y
      [] op = "<=" -> x <= y
      [] op = ">=" -> x >= y

\* first position where the two tuples hold different integers, 0 when none
FirstDiff(s, t) ==
    LET D == {i \in 1..Min(Len(s), Len(t)) : s[i].v # t[i].v}
    IN  IF D = {} THEN 0 ELSE CHOOSE i \in D : \A j \in D : i <= j

\* tuple.__eq__, tuple.__lt__, tuple.__gt__ (tuplerichcompare)
TupleCompare(s, t, op) ==
    LET i == FirstDiff(s, t)
    IN  IF i = 0 THEN IntCompare(Len(s), Len(t), op)
        ELSE IF op = "==" THEN FALSE
        ELSE IF op = "!=" THEN TRUE
        ELSE IntCompare(s[i].v, t[i].v, op)

(***************************************************************************)
(* Iteration: __iter__ is a generator over the stored tuple.               *)
(***************************************************************************)
IterSharedCursor(self_parts) ==
    [state |-> "created", over |-> <<>>,
     pos |-> IF gen.state = "none" THEN 0 ELSE gen.pos, yielded |-> <<>>]

\* the generator object a call of __iter__ returns; its body has not started
__iter__(self_parts) == [state |-> "created", over |-> <<>>, pos |-> 0, yielded |-> <<>>]

\* next(g): the first call evaluates self.__version_parts and enters the loop;
\* every call yields the next part of that tuple, or finishes
GenNext(g, self_parts) ==
    LET over == IF g.state = "created" THEN self_parts ELSE g.over
    IN  IF g.state = "exhausted" THEN g
        ELSE IF g.pos < Len(over)
        THEN [state |-> "suspended", over |-> over, pos |-> g.pos + 1,
              yielded |-> Append(g.yielded, over[g.pos + 1])]
        ELSE [state |-> "exhausted", over |-> over, pos |-> g.pos, yielded |-> g.yielded]

RECURSIVE Drain(_, _)
Drain(g, self_parts) ==
    IF g.state = "exhausted" THEN g.yielded ELSE Drain(GenNext(g, self_parts), self_parts)

\* tuple(b): drains iter(b)
TupleOf(x) == Drain(__iter__(x.parts), x.parts)

(***************************************************************************)
(* Comparison methods of BaseVersion.                                      *)
(***************************************************************************)
EqIgnoringLength(self_parts, x) ==
    IF ~IsInstanceVersion(x) THEN NotImplemented
    ELSE Return(FirstDiff(self_parts, TupleOf(x)) = 0)

__eq__(self_parts, x) ==
    IF ~IsInstanceVersion(x) THEN NotImplemented
    ELSE Return(TupleCompare(self_parts, TupleOf(x), "=="))

__gt__(self_parts, x) ==
    IF ~IsInstanceVersion(x) THEN NotImplemented
    ELSE Return(TupleCompare(self_parts, TupleOf(x), ">"))

LtLengthFirst(self_parts, x) ==
    IF ~IsInstanceVersion(x) THEN NotImplemented
    ELSE Return(\/ Len(self_parts) < Len(TupleOf(x))
                \/ /\ Len(self_parts) = Len(TupleOf(x))
                   /\ TupleCompare(self_parts, TupleOf(x), "<"))

LtFalseOnForeign(self_parts, x) ==
    IF ~IsInstanceVersion(x) THEN Return(FALSE)
    ELSE Return(TupleCompare(self_parts, TupleOf(x), "<"))

__lt__(self_parts, x) ==
    IF ~IsInstanceVersion(x) THEN NotImplemented
    ELSE Return(TupleCompare(self_parts, TupleOf(x), "<"))

GeStrictOnly(self_parts, x) ==
    IF ~IsInstanceVersion(x) THEN NotImplemented
    ELSE Return(TupleCompare(self_parts, TupleOf(x), ">"))

__ge__(self_parts, x) ==
    IF ~IsInstanceVersion(x) THEN NotImplemented
    ELSE Return(\/ TupleCompare(self_parts, TupleOf(x), ">")
                \/ TupleCompare(self_parts, TupleOf(x), "=="))

__le__(self_parts, x) ==
    IF ~IsInstanceVersion(x) THEN NotImplemented
    ELSE Return(\/ TupleCompare(self_parts, TupleOf(x), "<")
                \/ TupleCompare(self_parts, TupleOf(x), "=="))

\* BaseVersion defines no __ne__: object.__ne__ inverts __eq__ unless it is NotImplemented
__ne__(self_parts, x) ==
    LET r == __eq__(self_parts, x)
    IN  IF r = NotImplemented THEN NotImplemented ELSE Return(~r.val)

Method(op, self_parts, x) ==
    CASE op = "==" -> __eq__(self_parts, x)
      [] op = "!=" -> __ne__(self_parts, x)
      [] op = "<"  -> __lt__(self_parts, x)
      [] op = ">"  -> __gt__(self_parts, x)
      [] op = "<=" -> __le__(self_parts, x)
      [] op = ">=" -> __ge__(self_parts, x)

Swapped(op) ==
    CASE op = "==" -> "=="
      [] op = "!=" -> "!="
      [] op = "<"  -> ">"
      [] op = ">"  -> "<"
      [] op = "<=" -> ">="
      [] op = ">=" -> "<="

\* the reflected method of the right operand: the built-in types know no BaseVersion
Reflected(op, x, self_parts) ==
    IF IsInstanceVersion(x) THEN Method(Swapped(op), x.parts, VersionV(self_parts))
    ELSE NotImplemented

\* the interpreter's evaluation of `v op x`, v a BaseVersion and x another object
Compare(op, self_parts, x) ==
    LET r == Method(op, self_parts, x)
        q == Reflected(op, x, self_parts)
    IN  IF r # NotImplemented THEN r
        ELSE IF q # NotImplemented THEN q
        ELSE IF op = "==" THEN Return(FALSE)
        ELSE IF op = "!=" THEN Return(TRUE)
        ELSE Raise([type |-> "TypeError", op |-> op, right |-> x.t])

(***************************************************************************)
(* Text: str(), repr() and str.join.                                       *)
(***************************************************************************)
DigitChars == <<"0", "1", "2", "3", "4", "5", "6", "7", "8", "9">>

RECURSIVE NatStr(_)
NatStr(n) ==
    IF n < 10 THEN <<DigitChars[n + 1]>>
    ELSE NatStr(n \div 10) \o <<DigitChars[(n % 10) + 1]>>

\* str(n) of an int: decimal digits, a leading '-' when negative
IntStr(n) == IF n < 0 THEN <<"-">> \o NatStr(-n) ELSE NatStr(n)

\* str(x), also what an f-string field {x} renders
PyStr(x) ==
    CASE x.t = "int" -> IntStr(x.v)
      [] x.t = "bool" -> IF x.v = 1 THEN <<"T", "r", "u", "e">> ELSE <<"F", "a", "l", "s", "e">>
      [] x.t = "str" -> x.s
      [] x.t = "float" -> x.s
      [] x.t = "NoneType" -> <<"N", "o", "n", "e">>

RECURSIVE Join(_, _)
Join(sep, strs) ==
    IF Len(strs) = 0 THEN <<>>
    ELSE IF Len(strs) = 1 THEN strs[1]
    ELSE strs[1] \o sep \o Join(sep, Tail(strs))

\* repr of a tuple of ints: (), (1,), (1, 2)
TupleRepr(t) ==
    IF Len(t) = 1 THEN <<"(">> \o PyStr(t[1]) \o <<",", ")">>
    ELSE <<"(">> \o Join(<<",", " ">>, [i \in 1..Len(t) |-> PyStr(t[i])]) \o <<")">>

(***************************************************************************)
(* __len__, __str__, __repr__.                                             *)
(***************************************************************************)
__len__(self_parts) == Return(IntV(Len(self_parts)))

StrUnsigned(self_parts) ==
    Return(StrV(Join(<<".">>,
        [i \in 1..Len(self_parts) |->
            IF self_parts[i].t = "int" /\ self_parts[i].v < 0
            THEN IntStr(-self_parts[i].v) ELSE PyStr(self_parts[i])])))

__str__(self_parts) ==
    Return(StrV(Join(<<".">>, [i \in 1..Len(self_parts) |-> PyStr(self_parts[i])])))

__repr__(self_parts) ==
    Return(StrV(<<"V", "e", "r", "s", "i", "o", "n">> \o TupleRepr(self_parts)))

(***************************************************************************)
(* __getitem__: tuple indexing and slicing.                                *)
(***************************************************************************)
\* a slice component is None or has __index__
IsIndexOrNone(x) == x.t \in {"int", "bool", "NoneType"}

\* PySlice_AdjustIndices for start
AdjustStart(start, step, n) ==
    IF start.t = "NoneType" THEN (IF step < 0 THEN n - 1 ELSE 0)
    ELSE IF start.v < 0 THEN Max(start.v + n, IF step < 0 THEN -1 ELSE 0)
    ELSE Min(start.v, IF step < 0 THEN n - 1 ELSE n)

\* PySlice_AdjustIndices for stop
AdjustStop(stop, step, n) ==
    IF stop.t = "NoneType" THEN (IF step < 0 THEN -1 ELSE n)
    ELSE IF stop.v < 0 THEN Max(stop.v + n, IF step < 0 THEN -1 ELSE 0)
    ELSE Min(stop.v, IF step < 0 THEN n - 1 ELSE n)

SliceLength(start, stop, step) ==
    IF step < 0
    THEN (IF stop < start THEN ((start - stop - 1) \div (-step)) + 1 ELSE 0)
    ELSE (IF start < stop THEN ((stop - start - 1) \div step) + 1 ELSE 0)

SliceTypeError == [type |-> "TypeError",
                   text |-> "slice indices must be integers or None or have an __index__ method"]

\* tuple[slice]: step is unpacked first, then start and stop
TupleSlice(t, k) ==
    IF ~IsIndexOrNone(k.step) THEN Raise(SliceTypeError)
    ELSE IF k.step.t # "NoneType" /\ k.step.v = 0
    THEN Raise([type |-> "ValueError", text |-> "slice step cannot be zero"])
    ELSE IF ~IsIndexOrNone(k.start) \/ ~IsIndexOrNone(k.stop) THEN Raise(SliceTypeError)
    ELSE LET step == IF k.step.t = "NoneType" THEN 1 ELSE k.step.v
             start == AdjustStart(k.start, step, Len(t))
             stop == AdjustStop(k.stop, step, Len(t))
         IN  Return([i \in 1..SliceLength(start, stop, step) |-> t[start + (i - 1) * step + 1]])

GetItemNoNegative(self_parts, k) ==
    IF k.t \in {"int", "bool"}
    THEN IF k.v < 0 \/ k.v >= Len(self_parts)
         THEN Raise([type |-> "IndexError", text |-> "tuple index out of range"])
         ELSE Return(self_parts[k.v + 1])
    ELSE IF k.t = "slice" THEN TupleSlice(self_parts, k)
    ELSE Raise([type |-> "TypeError", text |-> "tuple indices must be integers or slices"])

\* self.__version_parts[key]
__getitem__(self_parts, k) ==
    IF k.t \in {"int", "bool"}
    THEN LET i == IF k.v < 0 THEN k.v + Len(self_parts) ELSE k.v
         IN  IF i < 0 \/ i >= Len(self_parts)
             THEN Raise([type |-> "IndexError", text |-> "tuple index out of range"])
             ELSE Return(self_parts[i + 1])
    ELSE IF k.t = "slice" THEN TupleSlice(self_parts, k)
    ELSE Raise([type |-> "TypeError", text |-> "tuple indices must be integers or slices"])

(***************************************************************************)
(* Construction: __init__ and __fill_parts.                                *)
(***************************************************************************)
PartError(part) ==
    [type |-> "TypeError",
     text |-> "Parts of semantic version must be all integer, '{part}' passed",
     part |-> PyStr(part)]

\* the for loop of __fill_parts: the first part that is no int raises
RECURSIVE FillLoop(_, _)
FillLoop(rest, acc) ==
    IF rest = <<>> THEN Return(acc)
    ELSE IF ~IsInstanceInt(Head(rest)) THEN Raise(PartError(Head(rest)))
    ELSE FillLoop(Tail(rest), Append(acc, Head(rest)))

FillPartsSkipping(a) == Return(SelectSeq(a, IsInstanceInt))

\* returns the tuple stored in self.__version_parts, or raises
__fill_parts(a) == FillLoop(a, <<>>)

__init__(a) == __fill_parts(a)

\* the call BaseVersion(*a): a new object, unless __init__ raises
BaseVersion(a) ==
    LET r == __init__(a)
    IN  IF r.kind = "raise" THEN r ELSE Return(VersionV(r.val))

(***************************************************************************)
(* Parsing: from_string, str.split and int().                              *)
(***************************************************************************)
SplitSkippingEmpty(s) ==
    LET Dots == {i \in 1..Len(s) : s[i] = "."}
        Starts == {i \in 1..Len(s) : s[i] # "." /\ (i = 1 \/ s[i - 1] = ".")}
        End(i) == IF \E j \in Dots : j > i
                  THEN (CHOOSE j \in Dots : j > i /\ \A m \in Dots : m > i => j <= m) - 1
                  ELSE Len(s)
        Nth(r) == CHOOSE i \in Starts : Cardinality({j \in Starts : j < i}) = r - 1
    IN  [r \in 1..Cardinality(Starts) |-> SubSeq(s, Nth(r), End(Nth(r)))]

\* s.split("."): cut at every '.', empty tokens kept
RECURSIVE SplitFrom(_, _)
SplitFrom(s, token) ==
    IF s = <<>> THEN <<token>>
    ELSE IF Head(s) = "." THEN <<token>> \o SplitFrom(Tail(s), <<>>)
    ELSE SplitFrom(Tail(s), Append(token, Head(s)))

Split(s) == SplitFrom(s, <<>>)

IsDigit(c) == \E d \in 1..10 : DigitChars[d] = c

DigitVal(c) == (CHOOSE d \in 1..10 : DigitChars[d] = c) - 1

RECURSIVE LStrip(_)
LStrip(s) == IF s # <<>> /\ Head(s) = " " THEN LStrip(Tail(s)) ELSE s

RECURSIVE RStrip(_)
RStrip(s) == IF s # <<>> /\ s[Len(s)] = " " THEN RStrip(SubSeq(s, 1, Len(s) - 1)) ELSE s

\* the digits of an int() literal: single underscores between digits only; -1 when malformed
RECURSIVE ScanDigits(_, _, _)
ScanDigits(s, acc, prev) ==
    IF s = <<>> THEN (IF prev = "digit" THEN acc ELSE -1)
    ELSE IF IsDigit(Head(s)) THEN ScanDigits(Tail(s), acc * 10 + DigitVal(Head(s)), "digit")
    ELSE IF Head(s) = "_" /\ prev = "digit" THEN ScanDigits(Tail(s), acc, "underscore")
    ELSE -1

\* int(token), base 10: surrounding whitespace stripped, optional sign, digits
PyInt(token) ==
    LET s == RStrip(LStrip(token))
        signed == s # <<>> /\ Head(s) \in {"+", "-"}
        n == ScanDigits(IF signed THEN Tail(s) ELSE s, 0, "start")
    IN  IF n < 0
        THEN Raise([type |-> "ValueError",
                    text |-> "invalid literal for int() with base 10: {token!r}",
                    token |-> token])
        ELSE Return(IntV(IF signed /\ Head(s) = "-" THEN -n ELSE n))

\* [int(v) for v in tokens]: left to right, the first failure propagates
RECURSIVE IntAll(_, _)
IntAll(tokens, acc) ==
    IF tokens = <<>> THEN Return(acc)
    ELSE LET r == PyInt(Head(tokens))
         IN  IF r.kind = "raise" THEN r ELSE IntAll(Tail(tokens), Append(acc, r.val))

from_string(text) ==
    LET parts == IntAll(Split(text), <<>>)
    IN  IF parts.kind = "raise" THEN parts ELSE BaseVersion(parts.val)

(***************************************************************************)
(* sorted(versionslist) and sorted(versionslist, reverse=True): a stable   *)
(* sort that asks only x < y of its items.                                 *)
(***************************************************************************)
Less(x, y) == Compare("<", x.parts, y).val

RECURSIVE InsertSorted(_, _)
InsertSorted(s, x) ==
    IF s = <<>> THEN <<x>>
    ELSE IF Less(x, Head(s)) THEN <<x>> \o s
    ELSE <<Head(s)>> \o InsertSorted(Tail(s), x)

RECURSIVE SortAscending(_)
SortAscending(s) ==
    IF s = <<>> THEN <<>>
    ELSE InsertSorted(SortAscending(SubSeq(s, 1, Len(s) - 1)), s[Len(s)])

Reversed(s) == [i \in 1..Len(s) |-> s[Len(s) - i + 1]]

\* reverse=True reverses the list, sorts it, and reverses the result
sorted(s, reverse) ==
    IF reverse THEN Reversed(SortAscending(Reversed(s))) ELSE SortAscending(s)

(***************************************************************************)
(* Operations: comparisons.                                                *)
(***************************************************************************)
Eq ==
    /\ out' = Outcome("==", Compare("==", version_parts, b))
    /\ UNCHANGED <<version_parts, inputs, gen>>

Ne ==
    /\ out' = Outcome("!=", Compare("!=", version_parts, b))
    /\ UNCHANGED <<version_parts, inputs, gen>>

Lt ==
    /\ out' = Outcome("<", Compare("<", version_parts, b))
    /\ UNCHANGED <<version_parts, inputs, gen>>

Gt ==
    /\ out' = Outcome(">", Compare(">", version_parts, b))
    /\ UNCHANGED <<version_parts, inputs, gen>>

Le ==
    /\ out' = Outcome("<=", Compare("<=", version_parts, b))
    /\ UNCHANGED <<version_parts, inputs, gen>>

Ge ==
    /\ out' = Outcome(">=", Compare(">=", version_parts, b))
    /\ UNCHANGED <<version_parts, inputs, gen>>

(***************************************************************************)
(* Operations: length, rendering, indexing, iteration.                     *)
(***************************************************************************)
LenOp ==
    /\ out' = Outcome("len", __len__(version_parts))
    /\ UNCHANGED <<version_parts, inputs, gen>>

Str ==
    /\ out' = Outcome("str", __str__(version_parts))
    /\ UNCHANGED <<version_parts, inputs, gen>>

Repr ==
    /\ out' = Outcome("repr", __repr__(version_parts))
    /\ UNCHANGED <<version_parts, inputs, gen>>

GetItem ==
    /\ out' = Outcome("getitem", __getitem__(version_parts, key))
    /\ UNCHANGED <<version_parts, inputs, gen>>

\* g = iter(v)
IterStart ==
    /\ gen' = __iter__(version_parts)
    /\ out' = Outcome("iter", Return(NoneV))
    /\ UNCHANGED <<version_parts, inputs>>

\* next(g)
IterNext ==
    /\ gen.state # "none"
    /\ gen' = GenNext(gen, version_parts)
    /\ out' = Outcome("next",
                IF gen'.state = "exhausted" THEN Raise([type |-> "StopIteration"])
                ELSE Return(gen'.yielded[Len(gen'.yielded)]))
    /\ UNCHANGED <<version_parts, inputs>>

(***************************************************************************)
(* Operations: construction, parsing, sorting.                             *)
(***************************************************************************)
\* BaseVersion(*args)
Construct ==
    /\ out' = Outcome("BaseVersion", BaseVersion(args))
    /\ UNCHANGED <<version_parts, inputs, gen>>

\* BaseVersion.from_string(version)
FromString ==
    /\ out' = Outcome("from_string", from_string(version))
    /\ UNCHANGED <<version_parts, inputs, gen>>

\* version = str(v)
StrAssign ==
    /\ out' = Outcome("str", __str__(version_parts))
    /\ version' = out'.val.s
    /\ UNCHANGED <<version_parts, b, key, args, versionslist, gen>>

Sorted ==
    /\ out' = Outcome("sorted", Return(sorted(versionslist, FALSE)))
    /\ UNCHANGED <<version_parts, inputs, gen>>

SortedReverse ==
    /\ out' = Outcome("sorted_reverse", Return(sorted(versionslist, TRUE)))
    /\ UNCHANGED <<version_parts, inputs, gen>>

(***************************************************************************)
(* Specification of the comparisons: any version against any operand.      *)
(***************************************************************************)
InitCompare ==
    /\ version_parts \in Versions
    /\ b \in Operands
    /\ key = NoneV
    /\ version = <<>>
    /\ args = <<>>
    /\ versionslist = <<>>
    /\ out = NoOut
    /\ gen = NoGen

NextCompare == Eq \/ Ne \/ Lt \/ Gt \/ Le \/ Ge

SpecCompare == InitCompare /\ [][NextCompare]_vars

(***************************************************************************)
(* Specification of indexing: any version, any key.                        *)
(***************************************************************************)
Indices == {IntV(i) : i \in -(MaxLen + 1)..MaxLen} \cup {BoolV(1)}

SliceBounds == {IntV(i) : i \in -(MaxLen + 1)..(MaxLen + 1)} \cup {NoneV}

SliceSteps == {IntV(-2), IntV(-1), IntV(0), IntV(1), IntV(2), IntV(3), NoneV}

Keys ==
    Indices
    \cup {SliceV(s, e, st) : s \in SliceBounds, e \in SliceBounds, st \in SliceSteps}
    \cup {SliceV(FloatV(<<"2", "3", ".", "1", "8">>), StrV(<<"P", "e", "t", "e">>), NoneV),
          SliceV(StrV(<<"x">>), NoneV, IntV(0)),
          StrV(<<"h", "e", "r", "e">>), FloatV(<<"1", ".", "0">>), NoneV,
          VersionV(<<IntV(0)>>)}

InitGetItem ==
    /\ version_parts \in Versions
    /\ key \in Keys
    /\ b = NoneV
    /\ version = <<>>
    /\ args = <<>>
    /\ versionslist = <<>>
    /\ out = NoOut
    /\ gen = NoGen

NextGetItem == GetItem

SpecGetItem == InitGetItem /\ [][NextGetItem]_vars

(***************************************************************************)
(* Specification of a session on one version: every read operation, in    *)
(* any order, with operands and keys that succeed and that fail.           *)
(***************************************************************************)
SessionOperands == {VersionV(<<IntV(3), IntV(0)>>), IntV(4)}

SessionKeys == {IntV(0), IntV(-1), IntV(MaxLen), SliceV(NoneV, NoneV, IntV(2)), StrV(<<"x">>)}

Init ==
    /\ version_parts \in Versions
    /\ b \in SessionOperands
    /\ key \in SessionKeys
    /\ version = <<>>
    /\ args = <<>>
    /\ versionslist = <<>>
    /\ out = NoOut
    /\ gen = NoGen

Next ==
    \/ Eq \/ Ne \/ Lt \/ Gt \/ Le \/ Ge
    \/ LenOp \/ Str \/ Repr \/ GetItem
    \/ IterStart \/ IterNext

Spec == Init /\ [][Next]_vars

(***************************************************************************)
(* Specification of construction: any argument list, integers or not.      *)
(***************************************************************************)
ArgValues ==
    {IntV(-12), IntV(0), IntV(3), BoolV(1),
     StrV(<<"a">>), FloatV(<<"1", ".", "5">>), NoneV}

InitConstruct ==
    /\ args \in TuplesOver(ArgValues, MaxLen)
    /\ version_parts = <<>>
    /\ b = NoneV
    /\ key = NoneV
    /\ version = <<>>
    /\ versionslist = <<>>
    /\ out = NoOut
    /\ gen = NoGen

NextConstruct == Construct

SpecConstruct == InitConstruct /\ [][NextConstruct]_vars

(***************************************************************************)
(* Specification of parsing: any short text over the alphabet, and the     *)
(* texts of the documentation.                                             *)
(***************************************************************************)
MaxTextLen == 4

Alphabet == {"0", "1", "2", "-", "+", ".", "a", " ", "_"}

DocTexts ==
    {<<"2", "0", "2", "3", ".", "0", "3", ".", "0", "5">>,
     <<"2", "0", "2", "3", ".", "3", ".", "5">>,
     <<"3", ".", "4", ".", "5", ".", "a", "b", "c">>,
     <<"1", ".", "0", ".", "0", ".", "5", "3", "2", "2">>,
     <<"2", "0", "2", "3", ".", "0", "3", ".", "0", "4", ".", "0", "5", "5", "5", "5", ".", "0">>}

Texts == TuplesOver(Alphabet, MaxTextLen) \cup DocTexts

InitParse ==
    /\ version \in Texts
    /\ version_parts = <<>>
    /\ b = NoneV
    /\ key = NoneV
    /\ args = <<>>
    /\ versionslist = <<>>
    /\ out = NoOut
    /\ gen = NoGen

NextParse == FromString

SpecParse == InitParse /\ [][NextParse]_vars

(***************************************************************************)
(* Specification of the round trip: text = str(v), then from_string(text). *)
(***************************************************************************)
InitRoundTrip ==
    /\ version_parts \in Versions
    /\ version = <<>>
    /\ b = NoneV
    /\ key = NoneV
    /\ args = <<>>
    /\ versionslist = <<>>
    /\ out = NoOut
    /\ gen = NoGen

NextRoundTrip == StrAssign \/ FromString

SpecRoundTrip == InitRoundTrip /\ [][NextRoundTrip]_vars

(***************************************************************************)
(* Specification of sorting: short lists over a pool of versions, and the  *)
(* list of the documentation.                                              *)
(***************************************************************************)
MaxList == 3

V2(x, y) == VersionV(<<IntV(x), IntV(y)>>)

V3(x, y, z) == VersionV(<<IntV(x), IntV(y), IntV(z)>>)

V4(x, y, z, w) == VersionV(<<IntV(x), IntV(y), IntV(z), IntV(w)>>)

SortPool ==
    {VersionV(<<>>), V2(-1, 5), V3(0, 8, 97), V3(1, 0, 0),
     V3(1, 0, 1), V4(1, 0, 0, 0), V4(2024, 2, 25, 101)}

DocList == <<V3(1, 0, 0), V3(1, 0, 1), V3(0, 9, 95), V3(0, 8, 97), V4(2024, 2, 25, 101), V4(1, 0, 0, 0)>>

InitSort ==
    /\ versionslist \in TuplesOver(SortPool, MaxList) \cup {DocList}
    /\ version_parts = <<>>
    /\ b = NoneV
    /\ key = NoneV
    /\ version = <<>>
    /\ args = <<>>
    /\ out = NoOut
    /\ gen = NoGen

NextSort == Sorted \/ SortedReverse

SpecSort == InitSort /\ [][NextSort]_vars

(***************************************************************************)
(* C1: a == b returns true if and only if the two part sequences have the  *)
(* same length and the same integer at every position; a version and the   *)
(* same version with a trailing 0 appended are never equal.                *)
(***************************************************************************)
SameParts(s, t) == Len(s) = Len(t) /\ \A i \in 1..Len(s) : s[i].v = t[i].v

C1_EqualIffSameParts ==
    (out.op = "==" /\ IsInstanceVersion(b)) =>
        /\ out.kind = "return"
        /\ out.val = SameParts(version_parts, b.parts)
        /\ (b.parts = Append(version_parts, IntV(0)) => out.val = FALSE)

C1_Witness ==
    /\ out.op = "=="
    /\ IsInstanceVersion(b)
    /\ b.parts = Append(version_parts, IntV(0))
    /\ Len(version_parts) = 2
    /\ out.val = FALSE

(***************************************************************************)
(* C2: a < b (and b > a) holds exactly when the part sequences compare     *)
(* lexicographically: the first differing position decides by integer      *)
(* order, a strict prefix is less than its extension, and the zero-length  *)
(* version is less than every non-empty one.                               *)
(***************************************************************************)
LexLess(s, t) ==
    \E k \in 0..Min(Len(s), Len(t)) :
        /\ \A i \in 1..k : s[i].v = t[i].v
        /\ \/ k = Len(s) /\ k < Len(t)
           \/ k < Len(s) /\ k < Len(t) /\ s[k + 1].v < t[k + 1].v

C2_LessIsLexicographic ==
    IsInstanceVersion(b) =>
        /\ out.op = "<" =>
            /\ out.kind = "return"
            /\ out.val = LexLess(version_parts, b.parts)
            /\ (version_parts = <<>> /\ b.parts # <<>> => out.val = TRUE)
        /\ out.op = ">" =>
            /\ out.kind = "return"
            /\ out.val = LexLess(b.parts, version_parts)

C2_Witness ==
    /\ out.op = "<"
    /\ IsInstanceVersion(b)
    /\ version_parts = <<IntV(3), IntV(-12)>>
    /\ b.parts = <<IntV(3), IntV(-12), IntV(-12)>>
    /\ out.val = TRUE

(***************************************************************************)
(* C3 as stated: comparing a version with a value that is not a version    *)
(* fails with a type error for every one of ==, !=, <, >, <=, >=.          *)
(***************************************************************************)
CompareOps == {"==", "!=", "<", ">", "<=", ">="}

C3_ForeignAlwaysTypeError ==
    (out.op \in CompareOps /\ ~IsInstanceVersion(b)) =>
        /\ out.kind = "raise"
        /\ out.exc.type = "TypeError"

(***************************************************************************)
(* C3 amended: comparing a version with a value that is not a version      *)
(* fails with a type error for <, >, <=, >=; == returns false and !=       *)
(* returns true.                                                           *)
(***************************************************************************)
C3_ForeignOrderingTypeError ==
    ~IsInstanceVersion(b) =>
        /\ out.op \in {"<", ">", "<=", ">="} =>
            /\ out.kind = "raise"
            /\ out.exc.type = "TypeError"
        /\ out.op = "==" => (out.kind = "return" /\ out.val = FALSE)
        /\ out.op = "!=" => (out.kind = "return" /\ out.val = TRUE)

C3_Witness ==
    /\ out.op = "<"
    /\ b = IntV(4)
    /\ version_parts = <<IntV(3)>>
    /\ out.kind = "raise"

(***************************************************************************)
(* C6: v[i] with an integer i in [-n, n) returns the part at position i    *)
(* (negative i counting from the end) and outside [-n, n) fails with an    *)
(* index error; v[start:stop:step] returns what sequence slicing of the    *)
(* parts gives and never fails with an index error; a key that is neither  *)
(* an integer nor a slice fails with a type error.                         *)
(***************************************************************************)
Clamp(x, n, lo, hi) == IF x < 0 THEN Max(x + n, lo) ELSE Min(x, hi)

\* the 0-based positions a well-formed slice selects from a sequence of n items
Selected(k, n) ==
    LET st == IF k.step.t = "NoneType" THEN 1 ELSE k.step.v
    IN  IF st > 0
        THEN LET lo == IF k.start.t = "NoneType" THEN 0 ELSE Clamp(k.start.v, n, 0, n)
                 hi == IF k.stop.t = "NoneType" THEN n ELSE Clamp(k.stop.v, n, 0, n)
             IN  {i \in 0..(n - 1) : lo <= i /\ i < hi /\ (i - lo) % st = 0}
        ELSE LET hi == IF k.start.t = "NoneType" THEN n - 1 ELSE Clamp(k.start.v, n, -1, n - 1)
                 lo == IF k.stop.t = "NoneType" THEN -1 ELSE Clamp(k.stop.v, n, -1, n - 1)
             IN  {i \in 0..(n - 1) : lo < i /\ i <= hi /\ (hi - i) % (-st) = 0}

\* the selected items, ascending for a positive step and descending for a negative one
SliceOf(t, k) ==
    LET I == Selected(k, Len(t))
        up == k.step.t = "NoneType" \/ k.step.v > 0
        Rank(i) == 1 + Cardinality({j \in I : IF up THEN j < i ELSE j > i})
    IN  [r \in 1..Cardinality(I) |-> t[(CHOOSE i \in I : Rank(i) = r) + 1]]

WellFormedSlice(k) ==
    /\ IsIndexOrNone(k.start) /\ IsIndexOrNone(k.stop) /\ IsIndexOrNone(k.step)
    /\ (k.step.t # "NoneType" => k.step.v # 0)

C6_IndexAndSlice ==
    out.op = "getitem" =>
        LET n == Len(version_parts)
        IN  /\ (key.t \in {"int", "bool"} /\ -n <= key.v /\ key.v < n) =>
                /\ out.kind = "return"
                /\ out.val = version_parts[IF key.v < 0 THEN n + key.v + 1 ELSE key.v + 1]
                /\ (key.v = -1 => out.val = version_parts[n])
            /\ (key.t \in {"int", "bool"} /\ ~(-n <= key.v /\ key.v < n)) =>
                /\ out.kind = "raise"
                /\ out.exc.type = "IndexError"
            /\ key.t = "slice" =>
                /\ ~(out.kind = "raise" /\ out.exc.type = "IndexError")
                /\ WellFormedSlice(key) =>
                    /\ out.kind = "return"
                    /\ out.val = SliceOf(version_parts, key)
            /\ key.t \notin {"int", "bool", "slice"} =>
                /\ out.kind = "raise"
                /\ out.exc.type = "TypeError"

C6_Witness ==
    /\ out.op = "getitem"
    /\ version_parts = <<IntV(-12), IntV(0), IntV(3)>>
    /\ key = SliceV(IntV(-1), NoneV, IntV(-2))
    /\ out.kind = "return"
    /\ out.val = <<IntV(3), IntV(-12)>>

(***************************************************************************)
(* C8: a version's parts never change: across iterations, length queries,  *)
(* string and debug conversions, comparisons and index or slice accesses   *)
(* (successful or failing) the parts stay as constructed, the length is    *)
(* their count, and every new iteration yields all parts in stored order   *)
(* from the first one.                                                     *)
(***************************************************************************)
C8_Observed ==
    /\ out.op = "len" => out.val = IntV(Len(version_parts))
    /\ gen.state # "none" => gen.yielded = SubSeq(version_parts, 1, gen.pos)
    /\ gen.state = "exhausted" => gen.yielded = version_parts

C8_PartsNeverChange == []C8_Observed /\ [][version_parts' = version_parts]_vars

C8_Witness ==
    /\ gen.state = "exhausted"
    /\ Len(version_parts) = 3
    /\ gen.yielded = version_parts
    /\ out.op = "getitem"
    /\ out.kind = "raise"

(***************************************************************************)
(* C9: the debug representation of a version is the name of its type,      *)
(* BaseVersion, followed by its ordered parts in parentheses, as in        *)
(* BaseVersion(1, 0, 0, 5322).                                             *)
(***************************************************************************)
C9_ReprNamesBaseVersion ==
    out.op = "repr" =>
        /\ out.kind = "return"
        /\ out.val = StrV(<<"B", "a", "s", "e", "V", "e", "r", "s", "i", "o", "n">>
                          \o TupleRepr(version_parts))

(***************************************************************************)
(* C4: from_string(s) splits s on '.' and, when every token is a valid     *)
(* integer literal, returns the version whose parts are the tokens'        *)
(* integer values in order ("2023.03.05" gives 2023, 3, 5); when any token *)
(* is not a valid integer literal, the empty token of "" and of "1..2"     *)
(* included, it fails with a ValueError carrying the offending token.      *)
(***************************************************************************)
DotsOf(s) == {i \in 1..Len(s) : s[i] = "."}

\* position of the r-th '.', with 0 before the text and Len(s) + 1 after it
DotAt(s, r) ==
    IF r = 0 THEN 0
    ELSE IF r > Cardinality(DotsOf(s)) THEN Len(s) + 1
    ELSE CHOOSE i \in DotsOf(s) : Cardinality({j \in DotsOf(s) : j <= i}) = r

Token(s, r) == SubSeq(s, DotAt(s, r - 1) + 1, DotAt(s, r) - 1)

\* spaces, an optional sign, then digits with single underscores between digits, spaces
IsIntLiteral(tok) ==
    \E i \in 1..Len(tok) : \E j \in i..Len(tok) :
        /\ \A k \in 1..(i - 1) : tok[k] = " "
        /\ \A k \in (j + 1)..Len(tok) : tok[k] = " "
        /\ LET d == IF tok[i] \in {"+", "-"} THEN i + 1 ELSE i
           IN  /\ d <= j
               /\ IsDigit(tok[d])
               /\ IsDigit(tok[j])
               /\ \A k \in d..j : IsDigit(tok[k]) \/ (tok[k] = "_" /\ tok[k + 1] # "_")

RECURSIVE Pow10(_)
Pow10(e) == IF e = 0 THEN 1 ELSE 10 * Pow10(e - 1)

RECURSIVE SumOver(_, _, _)
SumOver(tok, P, Q) ==
    IF Q = {} THEN 0
    ELSE LET k == CHOOSE k \in Q : TRUE
         IN  DigitVal(tok[k]) * Pow10(Cardinality({m \in P : m > k})) + SumOver(tok, P, Q \ {k})

\* positional value of the digits, negated under a '-' sign
LiteralValue(tok) ==
    LET P == {k \in 1..Len(tok) : IsDigit(tok[k])}
        mag == SumOver(tok, P, P)
    IN  IF \E k \in 1..Len(tok) : tok[k] = "-" THEN -mag ELSE mag

C4_FromString ==
    out.op = "from_string" =>
        LET n == Cardinality(DotsOf(version)) + 1
            Bad == {r \in 1..n : ~IsIntLiteral(Token(version, r))}
        IN  /\ Bad = {} =>
                /\ out.kind = "return"
                /\ out.val = VersionV([r \in 1..n |-> IntV(LiteralValue(Token(version, r)))])
            /\ Bad # {} =>
                /\ out.kind = "raise"
                /\ out.exc.type = "ValueError"
                /\ \E r \in Bad : out.exc.token = Token(version, r)
            /\ version = <<"2", "0", "2", "3", ".", "0", "3", ".", "0", "5">> =>
                out = Outcome("from_string", BaseVersion(<<IntV(2023), IntV(3), IntV(5)>>))
            /\ version \in {<<>>, <<"1", ".", ".", "2">>} =>
                /\ out.kind = "raise"
                /\ out.exc.token = <<>>

C4_Witness ==
    /\ out.op = "from_string"
    /\ version = <<"1", ".", ".", "2">>
    /\ out.kind = "raise"
    /\ out.exc.type = "ValueError"

(***************************************************************************)
(* C5: construction fails with a TypeError if and only if at least one     *)
(* supplied value is not an integer-typed value (nothing is coerced), the  *)
(* error names the offending value, and no version is produced; otherwise  *)
(* the version stores exactly the supplied integers in input order,        *)
(* duplicates and negative values kept.                                    *)
(***************************************************************************)
\* the integer types: int, and bool, which is a subtype of int
IntegerTyped(x) == x.t \in {"int", "bool"}

C5_Construct ==
    out.op = "BaseVersion" =>
        LET Bad == {i \in 1..Len(args) : ~IntegerTyped(args[i])}
        IN  /\ Bad # {} =>
                /\ out.kind = "raise"
                /\ out.exc.type = "TypeError"
                /\ LET first == CHOOSE i \in Bad : \A j \in Bad : i <= j
                   IN  out.exc.part = PyStr(args[first])
            /\ Bad = {} =>
                /\ out.kind = "return"
                /\ out.val.t = "BaseVersion"
                /\ out.val.parts = args

C5_Witness ==
    /\ out.op = "BaseVersion"
    /\ args = <<IntV(3), StrV(<<"a">>), FloatV(<<"1", ".", "5">>)>>
    /\ out.kind = "raise"
    /\ out.exc.part = <<"a">>

(***************************************************************************)
(* C7 as stated: for every sequence p of integers of any length, zero      *)
(* included, parsing the canonical string of the version constructed from  *)
(* p yields a version equal to it.                                         *)
(***************************************************************************)
RoundTripped ==
    /\ out.op = "from_string"
    /\ version = __str__(version_parts).val.s

RoundTripEqual ==
    /\ out.kind = "return"
    /\ Compare("==", out.val.parts, VersionV(version_parts)) = Return(TRUE)

C7_RoundTripAnyLength == RoundTripped => RoundTripEqual

(***************************************************************************)
(* C7 amended: for every non-empty sequence p of int values (negative ones *)
(* included, bool values excluded), parsing the canonical string of the    *)
(* version constructed from p yields a version equal to it.                *)
(***************************************************************************)
C7_RoundTripNonEmpty ==
    (/\ RoundTripped
     /\ version_parts # <<>>
     /\ \A i \in 1..Len(version_parts) : version_parts[i].t = "int") => RoundTripEqual

C7_Witness ==
    /\ RoundTripped
    /\ version_parts = <<IntV(-12), IntV(0), IntV(3)>>
    /\ version = <<"-", "1", "2", ".", "0", ".", "3">>
    /\ RoundTripEqual

(***************************************************************************)
(* C10: the operators form a total order: exactly one of a < b, a == b,    *)
(* a > b holds; a >= b is (a > b) or (a == b) and a <= b is (a < b) or     *)
(* (a == b), hence a <= b iff not (a > b) and a >= b iff b <= a; < is      *)
(* transitive; sorting ascending gives a list in which every element is    *)
(* <= its successor, and sorting descending gives the reverse order.       *)
(***************************************************************************)
Holds(op, x, y) == Compare(op, x.parts, y) = Return(TRUE)

Fails(op, x, y) == Compare(op, x.parts, y) = Return(FALSE)

Count(s, x) == Cardinality({i \in 1..Len(s) : s[i] = x})

SameItems(s, t) == Len(s) = Len(t) /\ \A i \in 1..Len(s) : Count(s, s[i]) = Count(t, s[i])

DocSorted == <<V3(0, 8, 97), V3(0, 9, 95), V3(1, 0, 0), V4(1, 0, 0, 0), V3(1, 0, 1), V4(2024, 2, 25, 101)>>

C10_TotalOrder ==
    LET E == {versionslist[i] : i \in 1..Len(versionslist)}
    IN  /\ \A x, y \in E :
            /\ \A op \in {"==", "<", ">", "<=", ">="} : Holds(op, x, y) \/ Fails(op, x, y)
            /\ Cardinality({op \in {"<", "==", ">"} : Holds(op, x, y)}) = 1
            /\ Holds(">=", x, y) <=> (Holds(">", x, y) \/ Holds("==", x, y))
            /\ Holds("<=", x, y) <=> (Holds("<", x, y) \/ Holds("==", x, y))
            /\ Holds("<=", x, y) <=> ~Holds(">", x, y)
            /\ Holds(">=", x, y) <=> Holds("<=", y, x)
        /\ \A x, y, z \in E : (Holds("<", x, y) /\ Holds("<", y, z)) => Holds("<", x, z)
        /\ out.op = "sorted" =>
            /\ SameItems(versionslist, out.val)
            /\ \A i \in 1..(Len(out.val) - 1) : Holds("<=", out.val[i], out.val[i + 1])
            /\ (versionslist = DocList => out.val = DocSorted)
        /\ out.op = "sorted_reverse" =>
            /\ SameItems(versionslist, out.val)
            /\ \A i \in 1..(Len(out.val) - 1) : Holds(">=", out.val[i], out.val[i + 1])
            /\ out.val = Reversed(sorted(versionslist, FALSE))

C10_Witness ==
    /\ out.op = "sorted"
    /\ versionslist = DocList
    /\ out.val = DocSorted

====
